---- MODULE Spec2Model ----
(***************************************************************************)
(* Model of plex_discord_media_updates.py: one run of the script, from the *)
(* loaded configuration to the webhook message and the uptime ping.        *)
(*                                                                         *)
(* A Python str is a sequence of Unicode code points (naturals); string    *)
(* comparison, slicing, rfind and join are modelled on those sequences.    *)
(* Python indices are 0-based, TLA+ sequences 1-based: s[i] in Python is   *)
(* s[i+1] here.                                                            *)
(***************************************************************************)
EXTENDS Integers, Sequences, FiniteSets, TLC

\* ------------------------------------------------------------------------
\* Bound of the model: how many episodes the Plex server returns at most.
\* (The movies returned are any distinct movies of plex_movies, in any order.)
MaxEpisodes == 2

\* ------------------------------------------------------------------------
\* Python string primitives

Min(a, b) == IF a < b THEN a ELSE b
Max(a, b) == IF a > b THEN a ELSE b

\* n copies of the code point c
Rep(c, n) == [i \in 1..n |-> c]

\* "\n"
NL == 10

\* str(n) for a natural number n
RECURSIVE IntToStr(_)
IntToStr(n) ==
    IF n < 10 THEN <<48 + n>> ELSE IntToStr(n \div 10) \o <<48 + (n % 10)>>

\* a < b on Python strings: lexicographic by code point
StrLess(a, b) ==
    LET n == Min(Len(a), Len(b))
        D == {i \in 1..n : a[i] # b[i]}
    IN  IF D = {} THEN Len(a) < Len(b)
        ELSE LET k == CHOOSE i \in D : \A j \in D : i <= j
             IN  a[k] < b[k]

\* sep.join(parts)
RECURSIVE Join(_, _)
Join(sep, parts) ==
    IF parts = << >> THEN << >>
    ELSE IF Len(parts) = 1 THEN parts[1]
    ELSE parts[1] \o sep \o Join(sep, Tail(parts))

\* s.rfind(c, lo, hi) for a one-character needle: the highest index i with
\* lo <= i < min(hi, len(s)) and s[i] = c, or -1
rfind(s, c, lo, hi) ==
    LET S == {i \in lo..(Min(hi, Len(s)) - 1) : s[i + 1] = c}
    IN  IF S = {} THEN -1 ELSE CHOOSE i \in S : \A j \in S : j <= i

\* s[:end], with Python's treatment of a negative end
SliceTo(s, end) ==
    LET e == IF end < 0 THEN Max(0, Len(s) + end) ELSE Min(end, Len(s))
    IN  SubSeq(s, 1, e)

\* list.sort() on a list of strings (insertion sort, stable)
RECURSIVE Insert(_, _)
Insert(x, sorted) ==
    IF sorted = << >> THEN <<x>>
    ELSE IF StrLess(x, sorted[1]) THEN <<x>> \o sorted
    ELSE <<sorted[1]>> \o Insert(x, Tail(sorted))

RECURSIVE SortList(_)
SortList(l) ==
    IF l = << >> THEN << >>
    ELSE Insert(l[Len(l)], SortList(SubSeq(l, 1, Len(l) - 1)))

\* collections.Counter(l): one entry per distinct element, in the order of
\* first occurrence (dict insertion order), with its number of occurrences
RECURSIVE Counter(_)
Counter(l) ==
    IF l = << >> THEN << >>
    ELSE LET init == SubSeq(l, 1, Len(l) - 1)
             x == l[Len(l)]
             c == Counter(init)
         IN  IF \E i \in DOMAIN c : c[i].show = x
             THEN [i \in DOMAIN c |->
                     IF c[i].show = x
                     THEN [show |-> x, count |-> c[i].count + 1]
                     ELSE c[i]]
             ELSE Append(c, [show |-> x, count |-> 1])

\* ------------------------------------------------------------------------
\* Configuration values (config.yml), fixed for the model

\* Character limit of a discord message including embeds
message_max_length == 4000

\* embed_options.bullet: the bullet glyph
cfg_bullet == <<8226>>
\* overflow_footer: "(list trimmed)"
cfg_overflow_footer ==
    <<40, 108, 105, 115, 116, 32, 116, 114, 105, 109, 109, 101, 100, 41>>
\* message_options.title: "New media in the last"
cfg_message_title ==
    <<78, 101, 119, 32, 109, 101, 100, 105, 97, 32, 105, 110, 32, 116, 104,
      101, 32, 108, 97, 115, 116>>
\* lookback_period: "24h", the default of LOOPBACK_PERIOD
lookback_period == <<50, 52, 104>>
\* embed_options.movies_emote and shows_emote (a clapper board, a television)
movie_emote == <<127916>>
tv_emote == <<128250>>


\* period_dict
period_dict ==
    [u \in {109, 104, 100, 119} |->
        CASE u = 109 -> <<109, 105, 110, 117, 116, 101>>      \* "m": "minute"
          [] u = 104 -> <<104, 111, 117, 114>>              \* "h": "hour"
          [] u = 100 -> <<100, 97, 121>>                    \* "d": "day"
          [] u = 119 -> <<119, 101, 101, 107>>]                \* "w": "week"

\* ------------------------------------------------------------------------
\* What the Plex server can answer

\* Movies of the library: "Dune (2021)" (2021), "Arrival" (2016), and a
\* movie with a long title, whose line ("<bullet> <title> (2016)") is 14
\* characters short of the message limit
plex_movies ==
    << [title |-> <<68, 117, 110, 101, 32, 40, 50, 48, 50, 49, 41>>,
        year |-> 2021],
       [title |-> <<65, 114, 114, 105, 118, 97, 108>>, year |-> 2016],
       [title |-> Rep(88, message_max_length - 23), year |-> 2016] >>

\* Shows of the library by rating key: "Bar (2019)" (2019), "Bar" (2019),
\* and "Bar (2019) (XX...X)" (2021), a show with a long title, whose line
\* ("<bullet> <title> (2021)") is 13 characters short of the message limit
plex_shows ==
    << [title |-> <<66, 97, 114, 32, 40, 50, 48, 49, 57, 41>>, year |-> 2019],
       [title |-> <<66, 97, 114>>, year |-> 2019],
       [title |-> <<66, 97, 114, 32, 40, 50, 48, 49, 57, 41, 32, 40>>
                    \o Rep(88, message_max_length - 35) \o <<41>>,
        year |-> 2021] >>

\* Sequences over S of length at most n
RECURSIVE SeqsUpTo(_, _)
SeqsUpTo(S, n) ==
    IF n = 0 THEN {<< >>}
    ELSE LET shorter == SeqsUpTo(S, n - 1)
         IN  shorter \cup {Append(q, x) : q \in shorter, x \in S}

\* movies.search(filters={"addedAt>>": lookback_period}): any list of
\* distinct movies of the library, each a reference to its Movie object
MovieResults ==
    {q \in SeqsUpTo(DOMAIN plex_movies, Len(plex_movies)) :
        \A i, j \in DOMAIN q : i # j => q[i] # q[j]}

\* shows.searchEpisodes(...): any list of episodes, each known by its
\* grandparentRatingKey
EpisodeResults == SeqsUpTo(DOMAIN plex_shows, MaxEpisodes)

\* plex.fetchItem(ratingKey)
fetchItem(key) == plex_shows[key]

\* ------------------------------------------------------------------------
\* State of a run

VARIABLES
    pc,                       \* position in the script
    skip_movies, skip_tv,     \* skip_libraries, raised when a search is empty
    show_total_episodes,      \* show_total_episode_count
    show_individual_episodes, \* show_episode_count_per_show
    uptime_status,            \* TRUE when an uptime monitor URL is configured
    bullet, max_length_exceeded_msg, message_title,
    new_movies, movies_str, movie_title,
    new_eps, counted_shows, total_episodes, episode_count,
    total_shows, tv_str, tv_title,
    media_lists, list_count, embed_length, webhook_embeds,
    sends,                    \* calls of webhook.send
    delivery,                 \* "none", "sent" or "failed"
    pings,                    \* calls of requests.get on the uptime monitor
    printed                   \* what the script printed

vars ==
    << pc, skip_movies, skip_tv, show_total_episodes,
       show_individual_episodes, uptime_status, bullet,
       max_length_exceeded_msg, message_title, new_movies, movies_str,
       movie_title, new_eps, counted_shows, total_episodes,
       episode_count, total_shows, tv_str, tv_title, media_lists, list_count,
       embed_length, webhook_embeds, sends, delivery, pings, printed >>

configVars ==
    << show_total_episodes, show_individual_episodes, uptime_status >>
movieVars == << new_movies, movies_str, movie_title >>
tvVars ==
    << new_eps, counted_shows, total_episodes, episode_count, total_shows,
       tv_str, tv_title >>
embedVars == << list_count, embed_length, webhook_embeds >>
ioVars == << sends, delivery, pings, printed >>
textVars == << bullet, max_length_exceeded_msg, message_title >>

\* ------------------------------------------------------------------------
\* Functions of the script

\* year_regex ".*\([12][0-9]{3}\)$" matched against a title without newlines
year_regex_match(title) ==
    LET n == Len(title)
    IN  /\ n >= 6
        /\ title[n - 5] = 40
        /\ title[n - 4] \in {49, 50}
        /\ \A i \in (n - 3)..(n - 1) : title[i] \in 48..57
        /\ title[n] = 41

clean_year(media) ==
    IF ~year_regex_match(media.title)
    THEN media.title \o <<32, 40>> \o IntToStr(media.year) \o <<41>>
    ELSE media.title

\* trim_on_newlines searching the newline up to and including the index
\* max_length (a variant the cut-point property must tell from the code)
trim_on_newlines_through_limit(long_string, max_length) ==
    IF Len(long_string) > max_length
    THEN LET end == rfind(long_string, NL, 0, max_length + 1)
         IN  SliceTo(long_string, end) \o max_length_exceeded_msg
    ELSE long_string \o max_length_exceeded_msg

trim_on_newlines(long_string, max_length) ==
    IF Len(long_string) > max_length
    THEN LET end == rfind(long_string, NL, 0, max_length)
         IN  SliceTo(long_string, end) \o max_length_exceeded_msg
    ELSE long_string \o max_length_exceeded_msg

\* create_embeds without its length test, passing every description through
\* trim_on_newlines (a variant the notice property must tell from the code)
create_embeds_always_trims(embed_title, embed_description, embed_color, max_length) ==
    [title |-> embed_title,
     description |-> trim_on_newlines(embed_description, max_length),
     color |-> embed_color,
     thumbnail |-> "None"]

\* The Embed that create_embeds appends to webhook_embeds
create_embeds(embed_title, embed_description, embed_color, max_length) ==
    [title |-> embed_title,
     description |->
        IF Len(embed_description) > max_length
        THEN trim_on_newlines(embed_description, max_length)
        ELSE embed_description,
     color |-> embed_color,
     thumbnail |-> "None"]


\* "Movie" or "Movies" (movies_title_counted)
movies_title_counted(total_movies) ==
    <<77, 111, 118, 105, 101>> \o
        (IF total_movies # 1 THEN <<115>> ELSE << >>)

\* "episode" or "episodes" in a line of the shows list (episodes_counted)
episodes_counted(count) ==
    <<101, 112, 105, 115, 111, 100, 101>> \o
        (IF count > 1 THEN <<115>> ELSE << >>)

\* One line of show_list for a show and its number of new episodes
show_line(counted_show, count) ==
    IF show_individual_episodes
    THEN bullet \o counted_show \o <<32, 45, 32, 42>> \o IntToStr(count)
            \o <<32>> \o episodes_counted(count) \o <<42>>
    ELSE bullet \o counted_show

\* show_title_counted without the case of one show with several episodes (a
\* variant the plural property must tell from the code)
show_title_counted_by_shows_only(shows, last_episode_count) ==
    <<83, 104, 111, 119>> \o (IF shows > 1 THEN <<115>> ELSE << >>)

\* "Show" or "Shows" in the title of the shows embed (show_title_counted)
show_title_counted(shows, last_episode_count) ==
    <<83, 104, 111, 119>> \o
        (IF shows > 1 THEN <<115>>
         ELSE IF last_episode_count > 1 THEN <<115>> ELSE << >>)

\* "Episode" or "Episodes" in the title of the shows embed
episode_title_counted(shows, last_episode_count) ==
    <<69, 112, 105, 115, 111, 100, 101>> \o
        (IF shows > 1 THEN <<115>> ELSE << >>)

\* sum([len(descr) for descr in media_lists])
RECURSIVE SumLen(_)
SumLen(lists) ==
    IF lists = << >> THEN 0 ELSE Len(lists[1]) + SumLen(Tail(lists))

\* media_lists holds references to the strings movies_str and tv_str
descr(ref) == IF ref = "movies_str" THEN movies_str ELSE tv_str
descriptions(lists) == [i \in DOMAIN lists |-> descr(lists[i])]

\* embed_length with the full length kept for lists that add up to exactly
\* the limit (a variant the allocation property must tell from the code)
embed_length_of_inclusive(lists) ==
    IF SumLen(lists) <= message_max_length
    THEN message_max_length
    ELSE message_max_length \div Len(lists)

\* embed_length for the lists built, when the division is defined
embed_length_of(lists) ==
    IF SumLen(lists) < message_max_length
    THEN message_max_length
    ELSE message_max_length \div Len(lists)

\* ------------------------------------------------------------------------
\* Initial state: the configuration is loaded (lines 68-112)

Init ==
    /\ pc = "format"
    /\ skip_movies \in BOOLEAN
    /\ skip_tv \in BOOLEAN
    /\ show_total_episodes \in BOOLEAN
    /\ show_individual_episodes \in BOOLEAN
    /\ uptime_status \in BOOLEAN
    /\ bullet = cfg_bullet
    /\ max_length_exceeded_msg = cfg_overflow_footer
    /\ message_title = cfg_message_title
    /\ new_movies = << >>
    /\ movies_str = << >>
    /\ movie_title = << >>
    /\ new_eps = << >>
    /\ counted_shows = << >>
    /\ total_episodes = 0
    /\ episode_count = 0
    /\ total_shows = 0
    /\ tv_str = << >>
    /\ tv_title = << >>
    /\ media_lists = << >>
    /\ list_count = 0
    /\ embed_length = 0
    /\ webhook_embeds = << >>
    /\ sends = 0
    /\ delivery = "none"
    /\ pings = 0
    /\ printed = << >>

\* ------------------------------------------------------------------------
\* Steps of the script

\* Lines 176-200: formatting strings from the user variables
FormatStrings ==
    /\ pc = "format"
    /\ bullet' = bullet \o <<32>>
    /\ max_length_exceeded_msg' =
          <<NL, NL, 42, 42>> \o max_length_exceeded_msg \o <<42, 42>>
    /\ LET n == Len(lookback_period)
           magnitude == SubSeq(lookback_period, 1, n - 1)
           unit == period_dict[lookback_period[n]]
           lookback_text ==
               IF magnitude = <<49>> THEN unit
               ELSE magnitude \o <<32>> \o unit \o <<115>>
       IN  message_title' =
               <<95, 32, 95>> \o <<NL, 42, 42>> \o message_title \o <<32>>
                   \o lookback_text \o <<58, 42, 42>>
    /\ pc' = "movies"
    /\ UNCHANGED << skip_movies, skip_tv, configVars, movieVars, tvVars,
                    media_lists, embedVars, ioVars >>

\* Lines 203-226: the movies list and its title
ScanMovies ==
    /\ pc = "movies"
    /\ pc' = "shows"
    /\ IF skip_movies
       THEN UNCHANGED << skip_movies, movieVars, media_lists >>
       ELSE \E found \in MovieResults :
              /\ new_movies' = found
              /\ IF found = << >>
                 THEN /\ skip_movies' = TRUE
                      /\ UNCHANGED << movies_str, movie_title, media_lists >>
                 ELSE LET new_movies_formatted ==
                              [i \in DOMAIN found |->
                                  clean_year(plex_movies[found[i]])]
                          total_movies == Len(new_movies_formatted)
                          str == bullet \o
                                 Join(<<NL>> \o bullet, new_movies_formatted)
                      IN  /\ movies_str' = str
                          /\ media_lists' = Append(media_lists, "movies_str")
                          /\ movie_title' =
                                IntToStr(total_movies) \o <<32>>
                                    \o movies_title_counted(total_movies)
                                    \o <<32>> \o movie_emote
                          /\ UNCHANGED skip_movies
    /\ UNCHANGED << skip_tv, configVars, textVars, tvVars, embedVars, ioVars >>

\* The totals the loop of lines 253-265 leaves: the lines, the sum of the
\* episode counts, and the episode count of the show iterated last
RECURSIVE loop_over_counted_shows(_)
loop_over_counted_shows(c) ==
    IF c = << >>
    THEN [show_list |-> << >>, total_episodes |-> 0, episode_count |-> 0]
    ELSE LET before == loop_over_counted_shows(SubSeq(c, 1, Len(c) - 1))
             this == c[Len(c)]
         IN  [show_list |->
                 Append(before.show_list, show_line(this.show, this.count)),
              total_episodes |-> before.total_episodes + this.count,
              episode_count |-> this.count]

\* Lines 238-244: the title of the show of each episode
new_shows(found) ==
    [i \in DOMAIN found |-> clean_year(fetchItem(found[i]))]

\* Lines 248-266: show_list after show_list.sort()
sorted_show_list(found) ==
    SortList(loop_over_counted_shows(Counter(new_shows(found))).show_list)

\* Lines 227-289: the shows list and its title
ScanShows ==
    /\ pc = "shows"
    /\ pc' = "embeds"
    /\ IF skip_tv
       THEN UNCHANGED << skip_tv, tvVars, media_lists >>
       ELSE \E found \in EpisodeResults :
              /\ new_eps' = found
              /\ IF found = << >>
                 THEN /\ skip_tv' = TRUE
                      /\ UNCHANGED << counted_shows,
                                      total_episodes, episode_count,
                                      total_shows, tv_str, tv_title,
                                      media_lists >>
                 ELSE LET counted == Counter(new_shows(found))
                          looped == loop_over_counted_shows(counted)
                          sorted == sorted_show_list(found)
                          shows == Len(sorted)
                          str == Join(<<NL>>, sorted)
                      IN  /\ counted_shows' = counted
                          /\ total_episodes' = looped.total_episodes
                          /\ episode_count' = looped.episode_count
                          /\ total_shows' = shows
                          /\ tv_str' = str
                          /\ media_lists' = Append(media_lists, "tv_str")
                          /\ tv_title' =
                                IF show_total_episodes
                                THEN IntToStr(shows) \o <<32>>
                                       \o show_title_counted(
                                             shows, looped.episode_count)
                                       \o <<32, 47, 32>>
                                       \o IntToStr(looped.total_episodes)
                                       \o <<32>>
                                       \o episode_title_counted(
                                             shows, looped.episode_count)
                                       \o <<32>> \o tv_emote
                                ELSE IntToStr(shows) \o <<32>>
                                       \o show_title_counted(
                                             shows, looped.episode_count)
                                       \o <<32>> \o tv_emote
                          /\ UNCHANGED skip_tv
    /\ UNCHANGED << skip_movies, configVars, textVars, movieVars, embedVars,
                    ioVars >>

\* embed.set_thumbnail(embed_thumbnail)
set_thumbnail(embed) == [embed EXCEPT !.thumbnail = "embed_thumbnail"]

\* Lines 291-309: the length each list may have, the embeds, the thumbnails.
\* The division of line 300 raises ZeroDivisionError when there is no list.
BuildEmbeds ==
    /\ pc = "embeds"
    /\ list_count' = Len(media_lists)
    /\ IF /\ ~(SumLen(descriptions(media_lists)) < message_max_length)
          /\ Len(media_lists) = 0
       THEN /\ pc' = "error"
            /\ UNCHANGED << embed_length, webhook_embeds >>
       ELSE LET length == embed_length_of(descriptions(media_lists))
                movies == IF ~skip_movies
                          THEN << create_embeds(movie_title, movies_str,
                                     "movie_embed_colour", length) >>
                          ELSE << >>
                tv == IF ~skip_tv
                      THEN << create_embeds(tv_title, tv_str,
                                 "tv_embed_colour", length) >>
                      ELSE << >>
                embeds == webhook_embeds \o movies \o tv
            IN  /\ embed_length' = length
                /\ webhook_embeds' =
                      [i \in DOMAIN embeds |-> set_thumbnail(embeds[i])]
                /\ pc' = "send"
    /\ UNCHANGED << skip_movies, skip_tv, configVars, textVars, movieVars,
                    tvVars, media_lists, ioVars >>

\* The sending step without the test for embeds (a variant the delivery
\* property must tell from the code)
SendWebhook_unconditional ==
    /\ pc = "send"
    /\ pc' = "ping"
    /\ \E ok \in BOOLEAN :
          /\ sends' = sends + 1
          /\ delivery' = IF ok THEN "sent" ELSE "failed"
          /\ printed' = IF ok THEN printed
                        ELSE Append(printed, "error sending the message")
    /\ UNCHANGED << skip_movies, skip_tv, configVars, textVars, movieVars,
                    tvVars, media_lists, embedVars, pings >>

\* Lines 311-318: one webhook.send, whose failure is printed
SendWebhook ==
    /\ pc = "send"
    /\ pc' = "ping"
    /\ IF webhook_embeds # << >>
       THEN \E ok \in BOOLEAN :
              /\ sends' = sends + 1
              /\ delivery' = IF ok THEN "sent" ELSE "failed"
              /\ printed' = IF ok THEN printed
                            ELSE Append(printed, "error sending the message")
       ELSE /\ printed' = Append(printed, "message not sent")
            /\ UNCHANGED << sends, delivery >>
    /\ UNCHANGED << skip_movies, skip_tv, configVars, textVars, movieVars,
                    tvVars, media_lists, embedVars, pings >>

\* Lines 320-326: the uptime status monitor, whose failure is printed
PingUptime ==
    /\ pc = "ping"
    /\ pc' = "done"
    /\ IF uptime_status
       THEN \E ok \in BOOLEAN :
              /\ pings' = pings + 1
              /\ printed' = IF ok THEN printed
                            ELSE Append(printed, "error pinging the monitor")
       ELSE UNCHANGED << pings, printed >>
    /\ UNCHANGED << skip_movies, skip_tv, configVars, textVars, movieVars,
                    tvVars, media_lists, embedVars, sends, delivery >>

Next ==
    \/ FormatStrings
    \/ ScanMovies
    \/ ScanShows
    \/ BuildEmbeds
    \/ SendWebhook
    \/ PingUptime

Spec == Init /\ [][Next]_vars


\* ------------------------------------------------------------------------
\* Vocabulary of the properties

\* s ends with (starts with) t
EndsWith(s, t) ==
    /\ Len(t) <= Len(s)
    /\ SubSeq(s, Len(s) - Len(t) + 1, Len(s)) = t
StartsWith(s, t) ==
    /\ Len(t) <= Len(s)
    /\ SubSeq(s, 1, Len(t)) = t

\* s has a newline at the (0-based) index k
NewlineAt(s, k) == k >= 0 /\ k < Len(s) /\ s[k + 1] = NL

\* The lines of a text, in order
LinesOf(s) ==
    LET newlines == {k \in 0..(Len(s) - 1) : NewlineAt(s, k)}
        starts == {0} \cup {k + 1 : k \in newlines}
        stop(a) == LET later == {k \in newlines : k >= a}
                   IN  IF later = {} THEN Len(s)
                       ELSE CHOOSE k \in later : \A j \in later : k <= j
        rank(a) == Cardinality({b \in starts : b <= a})
    IN  [i \in 1..Cardinality(starts) |->
            LET a == CHOOSE b \in starts : rank(b) = i
            IN  SubSeq(s, a + 1, stop(a))]

\* The embeds are built and about to be handed to webhook.send
EmbedsBuilt == pc = "send"
\* The shows list and its title are built from the episodes found
ShowsBuilt == pc = "embeds" /\ new_eps # << >>
\* A section is produced for each library that answered with items
SectionsProduced ==
    (IF new_movies # << >> THEN 1 ELSE 0) + (IF new_eps # << >> THEN 1 ELSE 0)

\* The list a delivered embed was made from: the movies list comes first
RawBody(i) == IF new_movies # << >> /\ i = 1 THEN movies_str ELSE tv_str
Delivered(i) == webhook_embeds[i].description
Trimmed(i) == Len(RawBody(i)) > embed_length
\* The part of a delivered description before the trailing overflow notice
KeptLength(i) == Len(Delivered(i)) - Len(max_length_exceeded_msg)

\* The series (rating keys) of the episodes found, and the display title and
\* the number of episodes of a series
SeriesFound == {new_eps[j] : j \in DOMAIN new_eps}
DisplayTitle(key) == clean_year(fetchItem(key))
EpisodesOf(key) == Cardinality({j \in DOMAIN new_eps : new_eps[j] = key})
\* The show a line of the shows list is about
ShowOfLine(line) ==
    CHOOSE i \in DOMAIN counted_shows :
        show_line(counted_shows[i].show, counted_shows[i].count) = line
\* The episode lists that differ from new_eps in their order only
Reorderings ==
    {[i \in DOMAIN new_eps |-> new_eps[f[i]]] : f \in Permutations(DOMAIN new_eps)}

\* ------------------------------------------------------------------------
\* Properties

\* C1: every delivered section body, overflow notice included, is at most as
\* long as the length allocated to the section (embed_length).
C1_BodyWithinAllocation ==
    EmbedsBuilt => \A i \in DOMAIN webhook_embeds : Len(Delivered(i)) <= embed_length

\* C2: every delivered section body ends with the overflow notice, whether
\* its list was longer than the allocated length or not.
C2_NoticeAlways ==
    EmbedsBuilt => \A i \in DOMAIN webhook_embeds :
        EndsWith(Delivered(i), max_length_exceeded_msg)

\* C2 (amended): a delivered body whose list was longer than the allocated
\* length ends with the overflow notice; a list at or below the allocated
\* length is delivered as it is, with no notice appended.
C2_NoticeOnlyWhenTrimmed ==
    EmbedsBuilt => \A i \in DOMAIN webhook_embeds :
        /\ Trimmed(i) => EndsWith(Delivered(i), max_length_exceeded_msg)
        /\ ~Trimmed(i) => Delivered(i) = RawBody(i)

\* A message with a trimmed section and a section delivered as it is
C2_Witness ==
    /\ EmbedsBuilt
    /\ \E i, j \in DOMAIN webhook_embeds : Trimmed(i) /\ ~Trimmed(j)

\* C3: the lines of the shows body are in ascending order of the display
\* titles of their shows, and the body is the same for every order of the
\* episodes found.
C3_SortedByDisplayTitle ==
    ShowsBuilt =>
        LET lines == LinesOf(tv_str)
        IN  /\ \A i, j \in DOMAIN lines :
                 i < j => StrLess(counted_shows[ShowOfLine(lines[i])].show,
                                  counted_shows[ShowOfLine(lines[j])].show)
            /\ \A eps \in Reorderings :
                 Join(<<NL>>, sorted_show_list(eps)) = tv_str

\* C4: there is exactly one entry (one line of the shows body) per series
\* among the episodes found, and its count is the number of episodes found
\* of that series.
C4_OneEntryPerSeries ==
    ShowsBuilt =>
        /\ Len(LinesOf(tv_str)) = Cardinality(SeriesFound)
        /\ Len(counted_shows) = Cardinality(SeriesFound)
        /\ \A key \in SeriesFound :
              \E i \in DOMAIN counted_shows :
                 /\ counted_shows[i].show = DisplayTitle(key)
                 /\ counted_shows[i].count = EpisodesOf(key)

\* C5: when a list is longer than the allowed length, the part of the result
\* before the overflow notice is at most as long as the allowed length.
C5_KeptPartWithinAllowed ==
    EmbedsBuilt => \A i \in DOMAIN webhook_embeds :
        Trimmed(i) => KeptLength(i) <= embed_length

\* C6: if the lists are shorter than the budget in total, each section is
\* allocated the budget; otherwise each is allocated the budget divided by the
\* number of sections (rounded down), and the allocations add up to the
\* budget.
C6_BudgetAllocation ==
    (EmbedsBuilt /\ SectionsProduced \in {1, 2}) =>
        /\ list_count = SectionsProduced
        /\ IF Len(movies_str) + Len(tv_str) < message_max_length
           THEN embed_length = message_max_length
           ELSE /\ embed_length = message_max_length \div SectionsProduced
                /\ SectionsProduced * embed_length = message_max_length

\* Two sections whose lists are exactly as long as the budget in total
C6_Witness ==
    /\ EmbedsBuilt
    /\ SectionsProduced = 2
    /\ Len(movies_str) + Len(tv_str) = message_max_length

\* C7: webhook.send is attempted at most once, and exactly when a section
\* was produced; a run without sections raises no error (no division by
\* zero), sends nothing and goes on to its end.
C7_SendOnceIffSections ==
    /\ sends <= 1
    /\ pc \in {"format", "movies", "shows", "embeds", "send"} => sends = 0
    /\ pc \in {"ping", "done"} => (sends = 1 <=> SectionsProduced > 0)
    /\ SectionsProduced = 0 => pc # "error" /\ (pc # "done" => ENABLED Next)

\* A finished run in which a library was searched and nothing was found
C7_Witness ==
    /\ pc = "done"
    /\ skip_movies /\ skip_tv
    /\ SectionsProduced = 0
    /\ sends = 0
    /\ printed # << >> /\ printed[1] = "message not sent"

C9_EpisodePlural ==
    (ShowsBuilt /\ show_total_episodes) =>
        EndsWith(tv_title,
            <<32, 47, 32>> \o IntToStr(Len(new_eps)) \o <<32, 69, 112, 105, 115, 111, 100, 101>>
                \o (IF Len(new_eps) > 1 THEN <<115>> ELSE << >>)
                \o <<32>> \o tv_emote)

\* C10: a list longer than the allowed length with a newline at an index at
\* or before the allowed length is cut at the last such newline, a newline at
\* the allowed length included, and the notice appended.
C10_CutAtLastNewlineAtOrBefore ==
    EmbedsBuilt => \A i \in DOMAIN webhook_embeds :
        Trimmed(i) =>
            LET at == {k \in 0..embed_length : NewlineAt(RawBody(i), k)}
            IN  at # {} =>
                  \E k \in at :
                     /\ \A j \in at : j <= k
                     /\ Delivered(i) =
                           SubSeq(RawBody(i), 1, k) \o max_length_exceeded_msg

\* C10 (amended): a list longer than the allowed length with a newline at an
\* index before the allowed length is cut at the last such newline and the
\* notice appended; a newline at the allowed length itself is no cut point.
C10_CutAtLastNewlineBefore ==
    EmbedsBuilt => \A i \in DOMAIN webhook_embeds :
        Trimmed(i) =>
            LET at == {k \in 0..(embed_length - 1) : NewlineAt(RawBody(i), k)}
            IN  at # {} =>
                  \E k \in at :
                     /\ \A j \in at : j <= k
                     /\ Delivered(i) =
                           SubSeq(RawBody(i), 1, k) \o max_length_exceeded_msg

\* A trimmed list with a newline at the allowed length and one before it
C10_Witness ==
    /\ EmbedsBuilt
    /\ \E i \in DOMAIN webhook_embeds :
          /\ Trimmed(i)
          /\ NewlineAt(RawBody(i), embed_length)
          /\ \E k \in 0..(embed_length - 1) : NewlineAt(RawBody(i), k)

====
